---- MODULE Spec2Model ----
(***************************************************************************)
(* Model of the Typhoon ASR API (src/main.py): the process-wide model      *)
(* cache, the POST /transcribe and POST /transcribe/batch handlers, and    *)
(* the temporary files they stage.  Handlers are coroutines of one event   *)
(* loop: a handler runs without interruption until it awaits the read of   *)
(* an upload or completes.                                                 *)
(***************************************************************************)
EXTENDS Integers, Sequences, FiniteSets, TLC

\* ------------------------------------------------------------------ bounds

\* Number of requests the server receives in one run.
NumReqs == 2

\* Number of uploads the server receives in one run, over all requests.
MaxUploads == 2

Reqs == 1..NumReqs

\* The frame of the GET / or GET /models request being served, if any.
GetSlot == NumReqs + 1

\* --------------------------------------------------------- static tables

\* The ASRModel enum.
ASRModel == {"typhoon-isan-asr-whisper", "monsoon-whisper-medium-gigaspeech2"}

\* MODEL_CONFIG[model]["language"].
MODEL_CONFIG(m) ==
    IF m = "typhoon-isan-asr-whisper"
    THEN [repo |-> "scb10x/typhoon-isan-asr-whisper", language |-> "th-isan"]
    ELSE [repo |-> "scb10x/monsoon-whisper-medium-gigaspeech2", language |-> "th"]

\* ------------------------------------------------------------- inputs

\* Upload filenames, as sequences of characters.
Filenames ==
    { <<"a", ".", "w", "a", "v">>,
      <<"B", ".", "W", "A", "V">>,
      <<"c", "l", "i", "p", ".", "m", "p", "3">> }

\* Messages of the errors the inference engine raises when it cannot build
\* a pipeline.
LoadErrors == {"repo not found", "out of memory"}

\* Values the pipeline returns from an invocation: a dict with a "text" key,
\* a dict without one, a plain string, and a value of another type.
EngineResults ==
    { [type |-> "dict", value |-> [text |-> "t1"]],
      [type |-> "dict", value |-> [text |-> "t2"]],
      [type |-> "dict", value |-> [chunks |-> "t1"]],
      [type |-> "str", value |-> "t1"],
      [type |-> "list", value |-> <<"t1">>] }

\* ------------------------------------------------------ pure functions

\* str.lower(), one character.
LowerChar(c) ==
    CASE c = "A" -> "a"
      [] c = "B" -> "b"
      [] c = "V" -> "v"
      [] c = "W" -> "w"
      [] OTHER -> c

\* str.lower().
Lower(s) == [k \in 1..Len(s) |-> LowerChar(s[k])]

\* str.endswith().
EndsWith(s, suffix) ==
    /\ Len(s) >= Len(suffix)
    /\ SubSeq(s, Len(s) - Len(suffix) + 1, Len(s)) = suffix

\* Variant: the extension check accepts every filename.
ValidExtensionAny(filename) == TRUE

\* file.filename.lower().endswith('.wav')
ValidExtension(filename) == EndsWith(Lower(filename), <<".", "w", "a", "v">>)

\* str(result) of a value that is neither a dict nor a str.
Str(v) == IF v = <<"t1">> THEN "['t1']" ELSE "<object>"

\* Variant: only a plain string is recognised.
NormalizeStrOnly(result) ==
    IF result.type = "str" THEN result.value ELSE "<object>"

\* The text extracted from a pipeline result.
Normalize(result) ==
    IF result.type = "dict"
    THEN IF "text" \in DOMAIN result.value THEN result.value.text ELSE ""
    ELSE IF result.type = "str" THEN result.value
    ELSE Str(result.value)

\* ------------------------------------------------------------- state

VARIABLES
    loaded_models,  \* the cache: a function from the loaded identifiers to handles
    build_calls,    \* per identifier, the number of pipeline(...) invocations
    build_errors,   \* per identifier, the number of those that raised
    handles,        \* the handles the engine has built so far, in build order
    tempfiles,      \* every temporary file created so far, in creation order
    frame,          \* per request, the handler's position and local variables
    received,       \* number of uploads received so far
    current         \* the request the event loop is executing, 0 when none

vars ==
    <<loaded_models, build_calls, build_errors, handles, tempfiles, frame,
      received, current>>

\* Python's None, and the value of a local that is not bound yet.
None == 0

NoResponse == [code |-> 0]

\* The frame of a request that has not arrived yet.
IdleFrame ==
    [ pc |-> "idle", kind |-> "none", model |-> "none", files |-> <<>>,
      asr_model |-> None, temp_file |-> None, temp_file_path |-> None,
      i |-> 1, results |-> <<>>, primary |-> NoResponse,
      response |-> NoResponse, trace |-> <<>> ]

Init ==
    /\ loaded_models = <<>>
    /\ build_calls = [m \in ASRModel |-> 0]
    /\ build_errors = [m \in ASRModel |-> 0]
    /\ handles = <<>>
    /\ tempfiles = <<>>
    /\ frame = [r \in Reqs \cup {GetSlot} |-> IdleFrame]
    /\ received = 0
    /\ current = None

\* ---------------------------------------------------------- event loop

\* Variant: the handlers run on worker threads (def instead of async def),
\* so any handler may take a step at any time.
ScheduledThreaded(r) == TRUE

\* The handlers are coroutines (async def) of one event loop: a handler
\* takes a step only when no other handler is between two suspension points.
Scheduled(r) == current \in {None, r}

\* The sequences of 1..n filenames.
Uploads(n) == UNION { [1..k -> Filenames] : k \in 1..n }

\* A request arrives: the framework binds the parameters and starts the
\* handler's coroutine.
Arrive(r) ==
    /\ frame[r].pc = "idle"
    /\ current = None
    /\ \A q \in Reqs : q < r => frame[q].pc # "idle"
    /\ \E m \in ASRModel, fs \in Uploads(MaxUploads - received) :
         /\ \/ /\ Len(fs) = 1
               /\ frame' = [frame EXCEPT ![r].pc = "validate", ![r].kind = "single",
                                          ![r].model = m, ![r].files = fs]
            \/ frame' = [frame EXCEPT ![r].pc = "load", ![r].kind = "batch",
                                       ![r].model = m, ![r].files = fs]
         /\ received' = received + Len(fs)
    /\ UNCHANGED <<loaded_models, build_calls, build_errors, handles, tempfiles, current>>

\* ------------------------------------------------- get_or_load_model

\* Variant: the membership test is missing, every call builds.
NeedsLoadAlways(m) == TRUE

\* model_name not in loaded_models
NeedsLoad(m) == m \notin DOMAIN loaded_models

\* loaded_models[model_name] = pipeline(...)
CacheStore(cache, m, h) == (m :> h) @@ cache

\* Variant: a failed build leaves a None entry behind.
CacheAfterFailureStoresNone(cache, m) == (m :> None) @@ cache

\* pipeline(...) raised: the assignment never happens.
CacheAfterFailure(cache, m) == cache

\* HTTPException(status_code=500, detail=f"Failed to load model: {str(e)}")
LoadError(e) == [code |-> 500, detail |-> <<"Failed to load model", e>>]

\* get_or_load_model returned handle h to its caller, which runs on to its
\* next suspension point: transcribe_audio to the await of file.read(),
\* transcribe_batch into its loop.
Returned(r, h) ==
    IF frame[r].kind = "single"
    THEN /\ frame' = [frame EXCEPT ![r].pc = "s_read", ![r].asr_model = h,
                                   ![r].temp_file = None]
         /\ current' = None
    ELSE /\ frame' = [frame EXCEPT ![r].pc = "loop", ![r].asr_model = h,
                                   ![r].results = <<>>]
         /\ current' = r

\* The request completes with response resp.
Respond(r, resp) ==
    /\ frame' = [frame EXCEPT ![r].pc = "done", ![r].response = resp]
    /\ current' = r

\* get_or_load_model, the membership test.
LoadCheck(r) ==
    /\ frame[r].pc = "load"
    /\ Scheduled(r)
    /\ IF NeedsLoad(frame[r].model)
       THEN /\ frame' = [frame EXCEPT ![r].pc = "build"]
            /\ current' = r
       ELSE Returned(r, loaded_models[frame[r].model])
    /\ UNCHANGED <<loaded_models, build_calls, build_errors, handles, tempfiles, received>>

\* get_or_load_model, the call of pipeline(...): the engine builds a new
\* handle, or raises.
Build(r) ==
    /\ frame[r].pc = "build"
    /\ Scheduled(r)
    /\ build_calls' = [build_calls EXCEPT ![frame[r].model] = @ + 1]
    /\ \/ /\ handles' = Append(handles, [model |-> frame[r].model, by |-> r])
          /\ loaded_models' = CacheStore(loaded_models, frame[r].model, Len(handles'))
          /\ Returned(r, loaded_models'[frame[r].model])
          /\ UNCHANGED build_errors
       \/ \E e \in LoadErrors :
            /\ loaded_models' = CacheAfterFailure(loaded_models, frame[r].model)
            /\ build_errors' = [build_errors EXCEPT ![frame[r].model] = @ + 1]
            /\ Respond(r, LoadError(e))
            /\ UNCHANGED handles
    /\ UNCHANGED <<tempfiles, received>>

\* ------------------------------------------------------ temporary files

\* tempfile.NamedTemporaryFile(delete=False, suffix='.wav') created a file.
NewFile(r) == [owner |-> r, exists |-> TRUE, unlink_calls |-> 0, unlink_errors |-> 0]

\* os.unlink(path) removed the file.
Unlinked(files, p) ==
    [files EXCEPT ![p].exists = FALSE, ![p].unlink_calls = @ + 1]

\* os.unlink(path) raised: the file stays.
UnlinkFailed(files, p) ==
    [files EXCEPT ![p].unlink_calls = @ + 1, ![p].unlink_errors = @ + 1]

\* os.path.exists(path)
Exists(p) == tempfiles[p].exists

\* ------------------------------------------------------ POST /transcribe

\* HTTPException(status_code=400, ...)
BadRequest ==
    [code |-> 400, detail |-> "Only WAV files are supported. Please upload a .wav file."]

\* HTTPException(status_code=500, detail=f"Failed to transcribe audio: {str(e)}")
TranscribeError(e) == [code |-> 500, detail |-> <<"Failed to transcribe audio", e>>]

\* An exception that leaves the handler: the server answers 500 without a
\* detail.
Unhandled(e) == [code |-> 500, unhandled |-> e]

\* TranscriptionResponse(text=..., model=..., language=..., status="success")
TranscriptionResponse(text, m) ==
    [code |-> 200,
     body |-> [text |-> text, model |-> m,
               language |-> MODEL_CONFIG(m).language, status |-> "success"]]

\* The extension check that opens transcribe_audio.
Validate(r) ==
    /\ frame[r].pc = "validate"
    /\ Scheduled(r)
    /\ IF ValidExtension(frame[r].files[1])
       THEN /\ frame' = [frame EXCEPT ![r].pc = "load"]
            /\ current' = r
       ELSE Respond(r, BadRequest)
    /\ UNCHANGED <<loaded_models, build_calls, build_errors, handles, tempfiles, received>>

\* except Exception as e: the error response is raised, the finally clause
\* runs next.
SingleExcept(r, e) ==
    /\ frame' = [frame EXCEPT ![r].pc = "s_finally",
                              ![r].primary = TranscribeError(e)]
    /\ current' = r

\* content = await file.read()
SingleRead(r) ==
    /\ frame[r].pc = "s_read"
    /\ Scheduled(r)
    /\ \/ /\ frame' = [frame EXCEPT ![r].pc = "s_stage"]
          /\ current' = r
       \/ SingleExcept(r, "read error")
    /\ UNCHANGED <<loaded_models, build_calls, build_errors, handles, tempfiles, received>>

\* with tempfile.NamedTemporaryFile(delete=False, suffix='.wav') as temp_file
SingleStage(r) ==
    /\ frame[r].pc = "s_stage"
    /\ Scheduled(r)
    /\ \/ /\ tempfiles' = Append(tempfiles, NewFile(r))
          /\ frame' = [frame EXCEPT ![r].pc = "s_write",
                                    ![r].temp_file = Len(tempfiles) + 1]
          /\ current' = r
       \/ /\ SingleExcept(r, "create error")
          /\ UNCHANGED tempfiles
    /\ UNCHANGED <<loaded_models, build_calls, build_errors, handles, received>>

\* temp_file.write(content); temp_file_path = temp_file.name
SingleWrite(r) ==
    /\ frame[r].pc = "s_write"
    /\ Scheduled(r)
    /\ \/ /\ frame' = [frame EXCEPT ![r].pc = "s_infer",
                                    ![r].temp_file_path = frame[r].temp_file]
          /\ current' = r
       \/ SingleExcept(r, "write error")
    /\ UNCHANGED <<loaded_models, build_calls, build_errors, handles, tempfiles, received>>

\* result = asr_model(temp_file_path), the extraction of the text and the
\* construction of the response.
SingleInfer(r) ==
    /\ frame[r].pc = "s_infer"
    /\ Scheduled(r)
    /\ \/ /\ frame[r].asr_model # None
          /\ \E result \in EngineResults :
               frame' = [frame EXCEPT
                   ![r].pc = "s_finally",
                   ![r].trace = <<[outcome |-> "ok", at |-> 1, result |-> result]>>,
                   ![r].primary = TranscriptionResponse(Normalize(result), frame[r].model)]
          /\ current' = r
       \/ SingleExcept(r, "inference error")
    /\ UNCHANGED <<loaded_models, build_calls, build_errors, handles, tempfiles, received>>

\* The finally clause of transcribe_audio.
SingleFinally(r) ==
    /\ frame[r].pc = "s_finally"
    /\ Scheduled(r)
    /\ IF frame[r].temp_file = None
       THEN /\ Respond(r, frame[r].primary)
            /\ UNCHANGED tempfiles
       ELSE IF frame[r].temp_file_path = None
       THEN \* temp_file_path is read before it was ever assigned
            /\ Respond(r, Unhandled("UnboundLocalError"))
            /\ UNCHANGED tempfiles
       ELSE IF Exists(frame[r].temp_file_path)
       THEN /\ \/ tempfiles' = Unlinked(tempfiles, frame[r].temp_file_path)
               \/ tempfiles' = UnlinkFailed(tempfiles, frame[r].temp_file_path)
            /\ Respond(r, frame[r].primary)
       ELSE /\ Respond(r, frame[r].primary)
            /\ UNCHANGED tempfiles
    /\ UNCHANGED <<loaded_models, build_calls, build_errors, handles, received>>

\* ------------------------------------------------ POST /transcribe/batch

\* The entry appended for an upload with a wrong extension.
InvalidEntry(filename) ==
    [filename |-> filename, status |-> "error",
     message |-> "Only WAV files are supported"]

\* The entry appended by the except clause.
ErrorEntry(filename, e) ==
    [filename |-> filename, status |-> "error", message |-> e]

\* The entry appended after a transcription.
SuccessEntry(filename, text, m) ==
    [filename |-> filename, text |-> text, model |-> m,
     language |-> MODEL_CONFIG(m).language, status |-> "success"]

\* The value transcribe_batch returns.
BatchReport(results, files, m) ==
    [code |-> 200,
     body |-> [results |-> results, total |-> Len(files), model |-> m,
               status |-> "completed"]]

\* What the handler has seen of upload i so far: how its processing went,
\* and the place in results of the first entry appended for it.
Traced(fr, outcome) ==
    IF Len(fr.trace) >= fr.i
    THEN fr.trace
    ELSE Append(fr.trace, [outcome |-> outcome, at |-> Len(fr.results) + 1])

\* Variant: the exception of an item leaves the handler.
BatchExceptAborts(r, e) ==
    Respond(r, Unhandled(e))

\* except Exception as e: an error entry is appended and the loop goes on
\* with the next upload.
BatchExcept(r, e) ==
    /\ frame' = [frame EXCEPT
           ![r].pc = "loop",
           ![r].trace = Traced(frame[r], e),
           ![r].results = Append(@, ErrorEntry(frame[r].files[frame[r].i], e)),
           ![r].i = @ + 1]
    /\ current' = r

\* The head of the for loop, the extension check of the next upload, and
\* the return of the report when no upload is left.
BatchLoop(r) ==
    /\ frame[r].pc = "loop"
    /\ Scheduled(r)
    /\ IF frame[r].i > Len(frame[r].files)
       THEN Respond(r, BatchReport(frame[r].results, frame[r].files, frame[r].model))
       ELSE IF ~ValidExtension(frame[r].files[frame[r].i])
       THEN /\ frame' = [frame EXCEPT
                   ![r].trace = Traced(frame[r], "invalid"),
                   ![r].results = Append(@, InvalidEntry(frame[r].files[frame[r].i])),
                   ![r].i = @ + 1]
            /\ current' = r
       ELSE /\ frame' = [frame EXCEPT ![r].pc = "b_read"]
            /\ current' = None
    /\ UNCHANGED <<loaded_models, build_calls, build_errors, handles, tempfiles, received>>

\* content = await file.read()
BatchRead(r) ==
    /\ frame[r].pc = "b_read"
    /\ Scheduled(r)
    /\ \/ /\ frame' = [frame EXCEPT ![r].pc = "b_stage"]
          /\ current' = r
       \/ BatchExcept(r, "read error")
    /\ UNCHANGED <<loaded_models, build_calls, build_errors, handles, tempfiles, received>>

\* with tempfile.NamedTemporaryFile(delete=False, suffix='.wav') as temp_file
BatchStage(r) ==
    /\ frame[r].pc = "b_stage"
    /\ Scheduled(r)
    /\ \/ /\ tempfiles' = Append(tempfiles, NewFile(r))
          /\ frame' = [frame EXCEPT ![r].pc = "b_write",
                                    ![r].temp_file = Len(tempfiles) + 1]
          /\ current' = r
       \/ /\ BatchExcept(r, "create error")
          /\ UNCHANGED tempfiles
    /\ UNCHANGED <<loaded_models, build_calls, build_errors, handles, received>>

\* temp_file.write(content); temp_file_path = temp_file.name
BatchWrite(r) ==
    /\ frame[r].pc = "b_write"
    /\ Scheduled(r)
    /\ \/ /\ frame' = [frame EXCEPT ![r].pc = "b_infer",
                                    ![r].temp_file_path = frame[r].temp_file]
          /\ current' = r
       \/ BatchExcept(r, "write error")
    /\ UNCHANGED <<loaded_models, build_calls, build_errors, handles, tempfiles, received>>

\* result = asr_model(temp_file_path), the extraction of the text and the
\* append of the success entry.
BatchInfer(r) ==
    /\ frame[r].pc = "b_infer"
    /\ Scheduled(r)
    /\ \/ /\ frame[r].asr_model # None
          /\ \E result \in EngineResults :
               frame' = [frame EXCEPT
                   ![r].pc = "b_unlink",
                   ![r].trace = Append(@, [outcome |-> "ok",
                                           at |-> Len(frame[r].results) + 1,
                                           result |-> result]),
                   ![r].results = Append(@,
                       SuccessEntry(frame[r].files[frame[r].i], Normalize(result),
                                    frame[r].model))]
          /\ current' = r
       \/ BatchExcept(r, "inference error")
    /\ UNCHANGED <<loaded_models, build_calls, build_errors, handles, tempfiles, received>>

\* os.unlink(temp_file_path), inside the try block.
BatchUnlink(r) ==
    /\ frame[r].pc = "b_unlink"
    /\ Scheduled(r)
    /\ \/ /\ tempfiles' = Unlinked(tempfiles, frame[r].temp_file_path)
          /\ frame' = [frame EXCEPT ![r].pc = "loop", ![r].i = @ + 1]
          /\ current' = r
       \/ /\ tempfiles' = UnlinkFailed(tempfiles, frame[r].temp_file_path)
          /\ BatchExcept(r, "unlink error")
    /\ UNCHANGED <<loaded_models, build_calls, build_errors, handles, received>>

\* ------------------------------------------------- GET / and GET /models

\* The members of the ASRModel enum, in definition order.
ASRModelOrder == <<"typhoon-isan-asr-whisper", "monsoon-whisper-medium-gigaspeech2">>

\* Variant: the available models are reported as the loaded ones.
AvailableKeys == ASRModelOrder

\* list(loaded_models.keys()): the cached identifiers in insertion order,
\* which is the order in which their handles were built.
LoadedKeys ==
    CHOOSE s \in [1..Cardinality(DOMAIN loaded_models) -> DOMAIN loaded_models] :
        /\ \A m \in DOMAIN loaded_models : \E k \in DOMAIN s : s[k] = m
        /\ \A j, k \in DOMAIN s :
             j < k => loaded_models[s[j]] <= loaded_models[s[k]]

\* The value root() returns.
RootResponse ==
    [code |-> 200,
     body |-> [status |-> "running", available_models |-> ASRModelOrder,
               loaded_models |-> LoadedKeys]]

\* The value list_models() returns.
ModelsResponse ==
    [code |-> 200,
     body |-> [models |->
        [k \in DOMAIN ASRModelOrder |->
            [name |-> ASRModelOrder[k],
             repo |-> MODEL_CONFIG(ASRModelOrder[k]).repo,
             language |-> MODEL_CONFIG(ASRModelOrder[k]).language,
             loaded |-> ASRModelOrder[k] \in DOMAIN loaded_models]]]]

\* root(): the handler has no suspension point, it runs from the arrival
\* of the request to its return without another handler in between.
Root ==
    /\ frame[GetSlot].pc = "idle"
    /\ current = None
    /\ frame' = [frame EXCEPT ![GetSlot].pc = "done", ![GetSlot].kind = "root",
                              ![GetSlot].response = RootResponse]
    /\ current' = GetSlot
    /\ UNCHANGED <<loaded_models, build_calls, build_errors, handles, tempfiles,
                   received>>

\* list_models(), likewise.
ListModels ==
    /\ frame[GetSlot].pc = "idle"
    /\ current = None
    /\ frame' = [frame EXCEPT ![GetSlot].pc = "done", ![GetSlot].kind = "models",
                              ![GetSlot].response = ModelsResponse]
    /\ current' = GetSlot
    /\ UNCHANGED <<loaded_models, build_calls, build_errors, handles, tempfiles,
                   received>>

\* The response of a GET is sent; the next GET may arrive.
RetireGet ==
    /\ frame[GetSlot].pc = "done"
    /\ frame' = [frame EXCEPT ![GetSlot] = IdleFrame]
    /\ current' = None
    /\ UNCHANGED <<loaded_models, build_calls, build_errors, handles, tempfiles,
                   received>>

\* ---------------------------------------------------------- lifetime

\* The response is sent, the handler's frame is dropped and the event loop
\* turns to another task.
Retire(r) ==
    /\ frame[r].pc = "done"
    /\ Scheduled(r)
    /\ frame' = [frame EXCEPT ![r] = [IdleFrame EXCEPT !.pc = "closed"]]
    /\ current' = None
    /\ UNCHANGED <<loaded_models, build_calls, build_errors, handles, tempfiles, received>>

Next ==
    \/ \E r \in Reqs :
        \/ Arrive(r)
        \/ Validate(r)
        \/ LoadCheck(r)
        \/ Build(r)
        \/ SingleRead(r)
        \/ SingleStage(r)
        \/ SingleWrite(r)
        \/ SingleInfer(r)
        \/ SingleFinally(r)
        \/ BatchLoop(r)
        \/ BatchRead(r)
        \/ BatchStage(r)
        \/ BatchWrite(r)
        \/ BatchInfer(r)
        \/ BatchUnlink(r)
        \/ Retire(r)
    \/ Root
    \/ ListModels
    \/ RetireGet

Spec == Init /\ [][Next]_vars

\* ------------------------------------------------------------ properties

\* The requests whose handler holds a model handle.
Holding(m) == { r \in Reqs : frame[r].model = m /\ frame[r].asr_model # None }

\* The temporary files request r created.
FilesOf(r) == { p \in 1..Len(tempfiles) : tempfiles[p].owner = r }

\* The request took a step.
Stepped(r) == frame'[r] # frame[r]

\* C1: with handlers interleaving only at their awaits, the engine builds
\* at most one handle per identifier (exactly one once the identifier is
\* cached, failed builds aside), and every request working with that
\* identifier holds the handle the cache holds.
C1_SingleLoad ==
    \A m \in ASRModel :
        /\ build_calls[m] - build_errors[m] <= 1
        /\ m \in DOMAIN loaded_models => build_calls[m] - build_errors[m] = 1
        /\ \A r \in Holding(m) :
             /\ m \in DOMAIN loaded_models
             /\ frame[r].asr_model = loaded_models[m]

\* Two requests for the same identifier are both suspended on the read of
\* an upload, one build was made and both hold the handle it produced.
C1_Witness ==
    \E m \in ASRModel :
        /\ build_calls[m] = 1
        /\ build_errors[m] = 0
        /\ Cardinality(Holding(m)) >= 2
        /\ \A r \in Holding(m) : frame[r].pc \in {"s_read", "b_read"}

\* C2: an entry of the cache is never removed or replaced, no build is
\* invoked for an identifier that has one, and a call of get_or_load_model
\* for such an identifier returns the entry.
C2_EntriesStable ==
    [][ /\ \A m \in DOMAIN loaded_models :
             /\ m \in DOMAIN loaded_models'
             /\ loaded_models'[m] = loaded_models[m]
             /\ build_calls'[m] = build_calls[m]
        /\ \A r \in Reqs :
             ( /\ frame[r].pc = "load"
               /\ frame[r].model \in DOMAIN loaded_models
               /\ Stepped(r) )
             => frame'[r].asr_model = loaded_models[frame[r].model]
      ]_vars

\* A request has obtained from the cache the handle that the engine built
\* for another request.
C2_Witness ==
    \E r \in Reqs :
        /\ frame[r].asr_model # None
        /\ handles[frame[r].asr_model].by # r
        /\ frame[r].asr_model = loaded_models[frame[r].model]

\* C3: a build that raises leaves the cache as it was, with no entry for
\* the identifier, and ends the request with HTTP 500 and the detail
\* "Failed to load model: <engine message>"; the cache never holds an entry
\* for an identifier without a successful build, so the next call for it
\* goes to the build again.
C3_FailedLoad ==
    /\ [](\A m \in ASRModel :
             /\ m \in DOMAIN loaded_models <=> build_calls[m] > build_errors[m]
             /\ m \in DOMAIN loaded_models => loaded_models[m] # None)
    /\ [][ \A r \in Reqs :
             /\ ( /\ frame[r].pc = "build"
                  /\ Stepped(r)
                  /\ build_errors'[frame[r].model] > build_errors[frame[r].model] )
                => /\ loaded_models' = loaded_models
                   /\ frame[r].model \notin DOMAIN loaded_models'
                   /\ frame'[r].pc = "done"
                   /\ frame'[r].response.code = 500
                   /\ \E e \in LoadErrors :
                        frame'[r].response.detail = <<"Failed to load model", e>>
             /\ ( /\ frame[r].pc = "load"
                  /\ Stepped(r)
                  /\ build_calls[frame[r].model] = build_errors[frame[r].model] )
                => frame'[r].pc = "build"
         ]_vars

\* After a failed build of an identifier, a later request built it.
C3_Witness ==
    \E m \in ASRModel :
        /\ build_errors[m] = 1
        /\ build_calls[m] = 2
        /\ m \in DOMAIN loaded_models

\* The lower-cased filename does not end in ".wav".
NotWav(filename) == ~EndsWith(Lower(filename), <<".", "w", "a", "v">>)

\* File p was released once, and is gone unless the unlink itself failed.
ReleasedOnce(p) ==
    /\ tempfiles[p].unlink_calls = 1
    /\ tempfiles[p].unlink_errors = 0 => ~tempfiles[p].exists

\* C4: when a POST /transcribe request completes, every temporary file it
\* created was unlinked exactly once and is gone from storage.
C4_SingleFilesReleased ==
    \A r \in Reqs :
        (frame[r].kind = "single" /\ frame[r].pc = "done")
        => \A p \in FilesOf(r) : ReleasedOnce(p)

\* C5: when a POST /transcribe/batch request returns, every temporary file
\* it staged was unlinked exactly once and is gone from storage, whatever
\* the outcome of the item.
C5_BatchFilesReleased ==
    \A r \in Reqs :
        (frame[r].kind = "batch" /\ frame[r].pc = "done")
        => \A p \in FilesOf(r) : ReleasedOnce(p)

\* C6: a report returned by POST /transcribe/batch holds one entry per
\* upload, the k-th entry carrying the filename of the k-th upload.
C6_OneEntryPerUpload ==
    \A r \in Reqs :
        ( /\ frame[r].kind = "batch"
          /\ frame[r].pc = "done"
          /\ frame[r].response.code = 200 )
        => LET body == frame[r].response.body
           IN  /\ body.total = Len(frame[r].files)
               /\ Len(body.results) = body.total
               /\ \A k \in 1..body.total :
                    body.results[k].filename = frame[r].files[k]

\* C7: in a batch whose model is available, every upload is processed
\* whatever happened to the ones before it: an upload with a valid
\* extension is read, staged and transcribed, one whose inference succeeded
\* has a "success" entry with its own text, the model and its language, a
\* failed one has an "error" entry with a message and no text, and the
\* handler returns the report (HTTP 200) instead of raising.
C7_BatchIsolation ==
    \A r \in Reqs :
        (frame[r].kind = "batch" /\ frame[r].asr_model # None)
        => LET fr == frame[r]
           IN  /\ fr.pc = "done"
                  => /\ fr.response.code = 200
                     /\ fr.response.body.results = fr.results
                     /\ Len(fr.trace) = Len(fr.files)
               /\ \A k \in 1..Len(fr.trace) :
                    LET t == fr.trace[k]
                        entry == fr.results[t.at]
                    IN  /\ entry.filename = fr.files[k]
                        /\ NotWav(fr.files[k]) <=> t.outcome = "invalid"
                        /\ t.outcome = "ok"
                           => /\ entry.status = "success"
                              /\ entry.text = Normalize(t.result)
                              /\ entry.model = fr.model
                              /\ entry.language = MODEL_CONFIG(fr.model).language
                        /\ t.outcome # "ok"
                           => /\ entry.status = "error"
                              /\ "message" \in DOMAIN entry
                              /\ "text" \notin DOMAIN entry

\* A batch has returned its report: its first upload failed, its second
\* was transcribed.
C7_Witness ==
    \E r \in Reqs :
        /\ frame[r].kind = "batch"
        /\ frame[r].pc = "done"
        /\ frame[r].response.code = 200
        /\ Len(frame[r].trace) = 2
        /\ frame[r].trace[1].outcome # "ok"
        /\ frame[r].trace[2].outcome = "ok"

\* The number of entries the report holds for upload k.
EntriesFor(fr, k) ==
    (IF k < Len(fr.trace) THEN fr.trace[k + 1].at ELSE Len(fr.results) + 1)
        - fr.trace[k].at

\* C8: an unlink that fails changes no outcome: POST /transcribe still
\* answers with the result or the error it had, and in a batch an upload
\* that was transcribed keeps one entry, its "success" entry.
C8_CleanupNeverChangesOutcome ==
    \A r \in Reqs :
        /\ ( /\ frame[r].kind = "single"
             /\ frame[r].pc = "done"
             /\ \E p \in FilesOf(r) : tempfiles[p].unlink_errors > 0 )
           => frame[r].response = frame[r].primary
        /\ frame[r].kind = "batch"
           => \A k \in 1..Len(frame[r].trace) :
                frame[r].trace[k].outcome = "ok"
                => /\ EntriesFor(frame[r], k) = 1
                   /\ frame[r].results[frame[r].trace[k].at].status = "success"

\* C9: a POST /transcribe request whose filename does not end in ".wav" is
\* answered with HTTP 400 straight from the extension check: it never
\* reaches get_or_load_model, holds no handle, creates no file, and no step
\* of it changes the cache, the build counter or the temporary files.
C9_InvalidSingleRejected ==
    /\ [](\A r \in Reqs :
            (frame[r].kind = "single" /\ NotWav(frame[r].files[1]))
            => /\ frame[r].pc \in {"validate", "done"}
               /\ frame[r].asr_model = None
               /\ FilesOf(r) = {}
               /\ frame[r].pc = "done" => frame[r].response.code = 400)
    /\ [][ \A r \in Reqs :
             ( /\ frame[r].kind = "single"
               /\ NotWav(frame[r].files[1])
               /\ Stepped(r) )
             => UNCHANGED <<loaded_models, build_calls, tempfiles>>
         ]_vars

\* A POST /transcribe request for clip.mp3 was answered with HTTP 400 while
\* its identifier is not cached.
C9_Witness ==
    \E r \in Reqs :
        /\ frame[r].kind = "single"
        /\ frame[r].files[1] = <<"c", "l", "i", "p", ".", "m", "p", "3">>
        /\ frame[r].pc = "done"
        /\ frame[r].response.code = 400
        /\ frame[r].model \notin DOMAIN loaded_models

\* C10: no step of a batch request whose uploads all have an invalid
\* extension invokes the build, changes the cache or stages a file.
C10_InvalidBatchLoadsNothing ==
    [][ \A r \in Reqs :
          ( /\ frame[r].kind = "batch"
            /\ \A k \in 1..Len(frame[r].files) : NotWav(frame[r].files[k])
            /\ Stepped(r) )
          => UNCHANGED <<loaded_models, build_calls, tempfiles>>
      ]_vars

\* C11: POST /transcribe/batch always completes with HTTP 200 and a report
\* whose status is "completed", whatever fails; a model-load failure shows
\* only in the results of the report.
C11_BatchAlwaysCompletes ==
    \A r \in Reqs :
        (frame[r].kind = "batch" /\ frame[r].pc = "done")
        => /\ frame[r].response.code = 200
           /\ frame[r].response.body.status = "completed"

\* C12: a POST /transcribe request ends with HTTP 400 when the extension is
\* not .wav, else with HTTP 500 and a detail string when the model load,
\* the staging or the inference failed, else with HTTP 200 and a complete
\* result: text, the requested model, its language, status "success".
C12_SingleOutcomes ==
    \A r \in Reqs :
        (frame[r].kind = "single" /\ frame[r].pc = "done")
        => LET resp == frame[r].response
           IN  IF NotWav(frame[r].files[1])
               THEN resp.code = 400 /\ "detail" \in DOMAIN resp
               ELSE \/ /\ resp.code = 500
                       /\ "detail" \in DOMAIN resp
                       /\ frame[r].trace = <<>>
                    \/ /\ resp.code = 200
                       /\ Len(frame[r].trace) = 1
                       /\ DOMAIN resp.body = {"text", "model", "language", "status"}
                       /\ resp.body.model = frame[r].model
                       /\ resp.body.language = MODEL_CONFIG(frame[r].model).language
                       /\ resp.body.status = "success"

\* The text request r reported for the inference it recorded at trace[k].
ReportedText(r, k) ==
    IF frame[r].kind = "single"
    THEN frame[r].primary.body.text
    ELSE frame[r].results[frame[r].trace[k].at].text

\* C13: every engine result is turned into a text without raising, in both
\* endpoints alike: a dict yields its "text" field, a string yields itself
\* (so {"text": s} and s give the same text), any other value yields its
\* string conversion.
C13_Normalization ==
    \A r \in Reqs :
        \A k \in 1..Len(frame[r].trace) :
            frame[r].trace[k].outcome = "ok"
            => LET result == frame[r].trace[k].result
                   text == ReportedText(r, k)
               IN  /\ frame[r].kind = "single" => frame[r].primary.code = 200
                   /\ frame[r].kind = "batch"
                      => frame[r].results[frame[r].trace[k].at].status = "success"
                   /\ (result.type = "dict" /\ "text" \in DOMAIN result.value)
                      => text = result.value.text
                   /\ result.type = "str" => text = result.value
                   /\ result.type = "list" => text = Str(result.value)

\* A batch has transcribed two uploads, the engine returned {"text": "t1"}
\* for one and the string "t1" for the other, and both entries carry "t1".
C13_Witness ==
    \E r \in Reqs :
        /\ frame[r].kind = "batch"
        /\ Len(frame[r].trace) = 2
        /\ frame[r].trace[1].outcome = "ok"
        /\ frame[r].trace[2].outcome = "ok"
        /\ frame[r].trace[1].result = [type |-> "dict", value |-> [text |-> "t1"]]
        /\ frame[r].trace[2].result = [type |-> "str", value |-> "t1"]
        /\ ReportedText(r, 1) = "t1"
        /\ ReportedText(r, 2) = "t1"

\* The handler is at its call of the handle.
Invoking(r) == frame[r].pc \in {"s_infer", "b_infer"}

\* C14: no two requests are at the invocation of the same handle at once,
\* and no request is in the build while another is at an invocation.
C14_Serialized ==
    \A r, q \in Reqs :
        r # q
        => /\ ~(/\ Invoking(r)
                /\ Invoking(q)
                /\ frame[r].asr_model = frame[q].asr_model)
           /\ ~(frame[r].pc = "build" /\ Invoking(q))

\* A request is at the invocation of a handle that another request, which
\* is suspended on the read of its upload, holds too.
C14_Witness ==
    \E r, q \in Reqs :
        /\ r # q
        /\ Invoking(r)
        /\ frame[q].pc \in {"s_read", "b_read"}
        /\ frame[q].asr_model = frame[r].asr_model

\* The request ended with the model-load error.
LoadFailed(r) ==
    /\ frame[r].pc = "done"
    /\ frame[r].kind \in {"single", "batch"}
    /\ frame[r].response.code = 500
    /\ "detail" \in DOMAIN frame[r].response
    /\ frame[r].response.detail[1] = "Failed to load model"

\* C15: a handler reads and stages uploads only once it holds the handle:
\* up to the return of get_or_load_model it has read nothing and created no
\* file, and a request that ends with a model-load failure has neither, the
\* failing build leaving the temporary files as they were.
C15_HandleBeforeUploads ==
    /\ [](\A r \in Reqs :
            /\ frame[r].pc \in {"validate", "load", "build"}
               => /\ frame[r].asr_model = None
                  /\ FilesOf(r) = {}
                  /\ frame[r].trace = <<>>
            /\ frame[r].pc \in {"s_read", "s_stage", "s_write", "s_infer",
                                "loop", "b_read", "b_stage", "b_write",
                                "b_infer", "b_unlink"}
               => frame[r].asr_model # None
            /\ LoadFailed(r)
               => /\ FilesOf(r) = {}
                  /\ frame[r].trace = <<>>
                  /\ frame[r].results = <<>>)
    /\ [][ \A r \in Reqs :
             (frame[r].pc = "build" /\ Stepped(r) /\ frame'[r].pc = "done")
             => tempfiles' = tempfiles
         ]_vars

\* A batch request with a valid upload ended with the model-load error and
\* has created no file.
C15_Witness ==
    \E r \in Reqs :
        /\ LoadFailed(r)
        /\ frame[r].kind = "batch"
        /\ ~NotWav(frame[r].files[1])
        /\ FilesOf(r) = {}

\* C16: GET / and GET /models change neither the cache nor the build
\* counter; GET / lists as loaded exactly the identifiers that have a
\* stored handle, each once, and GET /models reports every model once, with
\* loaded true exactly for those; an identifier without a successful build
\* is never reported as loaded.
C16_ReadOnlyViews ==
    /\ [](frame[GetSlot].pc = "done"
          => LET body == frame[GetSlot].response.body
             IN  /\ frame[GetSlot].response.code = 200
                 /\ frame[GetSlot].kind = "root"
                    => /\ { body.loaded_models[k] : k \in DOMAIN body.loaded_models }
                            = DOMAIN loaded_models
                       /\ Len(body.loaded_models) = Cardinality(DOMAIN loaded_models)
                       /\ \A k \in DOMAIN body.loaded_models :
                            build_calls[body.loaded_models[k]]
                                > build_errors[body.loaded_models[k]]
                 /\ frame[GetSlot].kind = "models"
                    => /\ { body.models[k].name : k \in DOMAIN body.models } = ASRModel
                       /\ Len(body.models) = Cardinality(ASRModel)
                       /\ \A k \in DOMAIN body.models :
                            /\ body.models[k].loaded
                               <=> body.models[k].name \in DOMAIN loaded_models
                            /\ body.models[k].loaded
                               => build_calls[body.models[k].name]
                                    > build_errors[body.models[k].name])
    /\ [][ Stepped(GetSlot)
           => UNCHANGED <<loaded_models, build_calls, build_errors, handles, tempfiles>>
         ]_vars

\* GET / has answered while one identifier is cached and the build of the
\* other has failed: it lists the cached one only.
C16_Witness ==
    /\ frame[GetSlot].kind = "root"
    /\ frame[GetSlot].pc = "done"
    /\ Len(frame[GetSlot].response.body.loaded_models) = 1
    /\ \E m \in ASRModel :
         /\ m \notin DOMAIN loaded_models
         /\ build_errors[m] > 0

====
